---------------------------- MODULE Spec2Model ----------------------------
(***************************************************************************)
(* Model of fetch-lunch-menu.ts: the ISO week computation, the weekday     *)
(* table, the command-line overrides, the PDF-link resolution heuristic    *)
(* (findMenuPdfUrl) and the sequential pipeline of main with its download  *)
(* and temporary-file handling.                                            *)
(*                                                                         *)
(* Strings are sequences of one-character strings, so that toLowerCase,    *)
(* includes, indexOf, parseInt and the regular expressions are computed    *)
(* character by character as the code computes them.                       *)
(***************************************************************************)
EXTENDS Integers, Sequences, FiniteSets, TLC

VARIABLES
    pc,          \* position of the run (or of the function under study)
    args,        \* process.argv.slice(2)
    today,       \* the Date returned by new Date(): local calendar fields
    tz,          \* time zone of the host, which decides Date.valueOf()
    weekNumber,  \* main: let weekNumber
    selectedDay, \* main: let selectedDay (an index into WEEKDAYS, 0 = unset)
    html,        \* main: const html (the listing page)
    pdfUrl,      \* main: const pdfUrl (result of findMenuPdfUrl)
    tmpFile,     \* the temporary PDF file: "none", "exists", "deleted"
    unlinkReq,   \* fs.unlink(filePath, ...) has been called by downloadFile
    dlError,     \* the error downloadFile rejected with ("" = none)
    dlCause,     \* the event that made the download fail ("" = none)
    menuText,    \* main: let menuText
    out,         \* lines written with console.log, as tags
    errMsg,      \* the line written with console.error ("" = none)
    exitCode,    \* process exit status (-1 while running)
    fetches      \* number of HTTP requests started

vars == <<pc, args, today, tz, weekNumber, selectedDay, html, pdfUrl, tmpFile,
          unlinkReq, dlError, dlCause, menuText, out, errMsg, exitCode, fetches>>

-----------------------------------------------------------------------------
(* Bounds *)

FirstYear == 2020
NumYears == 7
MaxElems == 3

-----------------------------------------------------------------------------
(* Characters and strings *)

UpperChars == <<"A","B","C","D","E","F","G","H","I","J","K","L","M",
                "N","O","P","Q","R","S","T","U","V","W","X","Y","Z","Ø">>
LowerChars == <<"a","b","c","d","e","f","g","h","i","j","k","l","m",
                "n","o","p","q","r","s","t","u","v","w","x","y","z","ø">>

DigitChars == <<"0","1","2","3","4","5","6","7","8","9">>

IsDigit(c) == \E i \in 1..10 : DigitChars[i] = c

DigitVal(c) == (CHOOSE i \in 1..10 : DigitChars[i] = c) - 1

\* \s of the regular expressions
IsSpace(c) == c \in {" ", "\n", "\t"}

LowerChar(c) ==
    IF \E i \in 1..Len(UpperChars) : UpperChars[i] = c
    THEN LowerChars[CHOOSE i \in 1..Len(UpperChars) : UpperChars[i] = c]
    ELSE c

\* String.prototype.toLowerCase
toLowerCase(s) == [i \in 1..Len(s) |-> LowerChar(s[i])]

\* needle occurs in s starting at (1-based) position i
MatchesAt(s, needle, i) ==
    /\ i >= 1
    /\ i + Len(needle) - 1 <= Len(s)
    /\ \A k \in 1..Len(needle) : s[i + k - 1] = needle[k]

\* first 0-based position >= i - 1 at which needle occurs in s, -1 when none
RECURSIVE IndexFrom(_, _, _)
IndexFrom(s, needle, i) ==
    IF i + Len(needle) - 1 > Len(s) THEN -1
    ELSE IF MatchesAt(s, needle, i) THEN i - 1
    ELSE IndexFrom(s, needle, i + 1)

\* String.prototype.indexOf, 0-based, -1 when absent
indexOf(s, needle) == IndexFrom(s, needle, 1)

\* String.prototype.includes
includes(s, needle) == indexOf(s, needle) # -1

\* String.prototype.startsWith / the CSS selector [href$="..."]
endsWith(s, suffix) ==
    /\ Len(suffix) <= Len(s)
    /\ MatchesAt(s, suffix, Len(s) - Len(suffix) + 1)

\* String.prototype.substring(0, n)
substring0(s, n) == SubSeq(s, 1, n)

\* number of digit characters of s starting at position i (the greedy \d+)
RECURSIVE DigitRun(_, _)
DigitRun(s, i) ==
    IF i <= Len(s) /\ IsDigit(s[i]) THEN 1 + DigitRun(s, i + 1) ELSE 0

\* number of whitespace characters of s starting at position i (the greedy \s+)
RECURSIVE SpaceRun(_, _)
SpaceRun(s, i) ==
    IF i <= Len(s) /\ IsSpace(s[i]) THEN 1 + SpaceRun(s, i + 1) ELSE 0

\* decimal value of the digits s[i..i+n-1]
RECURSIVE DigitsValue(_, _, _)
DigitsValue(s, i, n) ==
    IF n = 0 THEN 0
    ELSE 10 * DigitsValue(s, i, n - 1) + DigitVal(s[i + n - 1])

NaN == -1000000

\* parseInt(s, 10): leading whitespace, an optional sign, then the longest
\* run of digits; NaN when there is no digit there. Trailing text is ignored.
parseInt(s) ==
    LET start == 1 + SpaceRun(s, 1)
        signed == start <= Len(s) /\ s[start] \in {"-", "+"}
        first == IF signed THEN start + 1 ELSE start
        n == DigitRun(s, first)
        v == DigitsValue(s, first, n)
    IN IF n = 0 THEN NaN
       ELSE IF signed /\ s[start] = "-" THEN 0 - v ELSE v

isNaN(x) == x = NaN

-----------------------------------------------------------------------------
(* Dates: the JavaScript Date of the host, in local time.                  *)
(* A Date is held as its local calendar fields [y, m, d] with m 0-based as *)
(* in getMonth/setMonth. The local time of day is left unchanged by        *)
(* setDate and setMonth and is fixed at noon here. valueOf is counted in   *)
(* seconds instead of milliseconds (every instant is a whole second).      *)

IsLeap(y) == (y % 4 = 0 /\ y % 100 # 0) \/ y % 400 = 0

DaysInMonth(y, m) ==
    IF m = 1 THEN (IF IsLeap(y) THEN 29 ELSE 28)
    ELSE IF m \in {3, 5, 8, 10} THEN 30 ELSE 31

LeapsUpTo(y) == (y \div 4) - (y \div 100) + (y \div 400)

\* days from 1970-01-01 to January 1st of year y
DaysBeforeYear(y) == 365 * (y - 1970) + LeapsUpTo(y - 1) - LeapsUpTo(1969)

RECURSIVE DaysBeforeMonth(_, _)
DaysBeforeMonth(y, m) ==
    IF m = 0 THEN 0 ELSE DaysBeforeMonth(y, m - 1) + DaysInMonth(y, m - 1)

\* days from 1970-01-01 to the local date [y, m, d]; d may lie outside the
\* month, as the day arguments of setDate and setMonth may
DayCount(y, m, d) == DaysBeforeYear(y) + DaysBeforeMonth(y, m) + d - 1

Years == (FirstYear - 1)..(FirstYear + NumYears)

\* the calendar date of a day count (normalisation done by setDate/setMonth)
DateOfCount(n) ==
    LET y == CHOOSE yy \in Years :
                 DaysBeforeYear(yy) <= n /\ n < DaysBeforeYear(yy + 1)
        m == CHOOSE mm \in 0..11 :
                 /\ DayCount(y, mm, 1) <= n
                 /\ n < DayCount(y, mm, 1) + DaysInMonth(y, mm)
    IN [y |-> y, m |-> m, d |-> n - DayCount(y, m, 1) + 1]

Count(date) == DayCount(date.y, date.m, date.d)

\* Date.prototype.getDay: 0 = Sunday .. 6 = Saturday (1970-01-01: Thursday)
getDay(date) == (Count(date) + 4) % 7

\* Date.prototype.getDate
getDate(date) == date.d

\* Date.prototype.setDate(n)
setDate(date, n) == DateOfCount(DayCount(date.y, date.m, n))

\* Date.prototype.setMonth(m, n)
setMonth(date, m, n) == DateOfCount(DayCount(date.y, m, n))

Zones == {"UTC", "Europe/Copenhagen", "Australia/Sydney"}

\* the n-th Sunday (n >= 1) of month m of year y, as a day count
NthSunday(y, m, n) ==
    LET first == DayCount(y, m, 1)
        toSunday == (7 - ((first + 4) % 7)) % 7
    IN first + toSunday + 7 * (n - 1)

\* the last Sunday of month m of year y, as a day count
LastSunday(y, m) ==
    LET last == DayCount(y, m, DaysInMonth(y, m))
    IN last - ((last + 4) % 7)

SecondsPerHour == 3600
SecondsPerDay == 86400

\* offset of local time from UTC at noon of the date, in seconds.
\* Copenhagen: UTC+1, UTC+2 from the last Sunday of March to the last Sunday
\* of October. Sydney: UTC+10, UTC+11 from the first Sunday of October to the
\* first Sunday of April.
UtcOffset(zone, date) ==
    LET n == Count(date)
    IN CASE zone = "UTC" -> 0
         [] zone = "Europe/Copenhagen" ->
              IF LastSunday(date.y, 2) <= n /\ n < LastSunday(date.y, 9)
              THEN 2 * SecondsPerHour ELSE 1 * SecondsPerHour
         [] zone = "Australia/Sydney" ->
              IF n < NthSunday(date.y, 3, 1) \/ n >= NthSunday(date.y, 9, 1)
              THEN 11 * SecondsPerHour ELSE 10 * SecondsPerHour

\* Date.prototype.valueOf: the instant of local noon of the date
valueOf(zone, date) ==
    Count(date) * SecondsPerDay + 12 * SecondsPerHour - UtcOffset(zone, date)

\* 604800000 ms
WeekLength == 604800

\* Math.ceil(a / b) for b > 0
CeilDiv(a, b) == 0 - ((0 - a) \div b)

getWeekNumber(zone, date) ==
    LET dayNumber == (getDay(date) + 6) % 7
        target1 == setDate(date, getDate(date) - dayNumber + 3)
        firstThursday == valueOf(zone, target1)
        target2 == setMonth(target1, 0, 1)
        target3 == IF getDay(target2) # 4
                   THEN setMonth(target2, 0, 1 + ((4 - getDay(target2) + 7) % 7))
                   ELSE target2
    IN 1 + CeilDiv(firstThursday - valueOf(zone, target3), WeekLength)

\* every calendar date of the years under study
AllDates ==
    { [y |-> y, m |-> m, d |-> d] :
        y \in FirstYear..(FirstYear + NumYears - 1), m \in 0..11, d \in 1..31 }

Dates == { dt \in AllDates : dt.d <= DaysInMonth(dt.y, dt.m) }

-----------------------------------------------------------------------------
(* The weekday table *)

WEEKDAYS == <<
    [danish |-> <<"m","a","n","d","a","g">>, english |-> <<"m","o","n","d","a","y">>],
    [danish |-> <<"t","i","r","s","d","a","g">>, english |-> <<"t","u","e","s","d","a","y">>],
    [danish |-> <<"o","n","s","d","a","g">>, english |-> <<"w","e","d","n","e","s","d","a","y">>],
    [danish |-> <<"t","o","r","s","d","a","g">>, english |-> <<"t","h","u","r","s","d","a","y">>],
    [danish |-> <<"f","r","e","d","a","g">>, english |-> <<"f","r","i","d","a","y">>] >>

-----------------------------------------------------------------------------
(* The listing page. The parsed document is the sequence of the elements   *)
(* of its body, each a heading or an anchor; the body markup is their      *)
(* serialization, character by character.                                  *)

Heading(text) == [tag |-> "h2", href |-> <<>>, text |-> text]

Anchor(href, text) == [tag |-> "a", href |-> href, text |-> text]

H2Open == <<"<","h","2",">">>
H2Close == <<"<","/","h","2",">">>
AOpen == <<"<","a"," ","h","r","e","f","=","\"">>
AMid == <<"\"",">">>
AClose == <<"<","/","a",">">>
PdfSuffix == <<".","p","d","f">>

\* $.html(element): the outer markup of one element
OuterHtml(e) ==
    IF e.tag = "a" THEN AOpen \o e.href \o AMid \o e.text \o AClose
    ELSE H2Open \o e.text \o H2Close

\* $('body').html() || html
RECURSIVE BodyHtml(_)
BodyHtml(doc) ==
    IF doc = <<>> THEN <<>> ELSE OuterHtml(Head(doc)) \o BodyHtml(Tail(doc))

\* the elements the listings under study are made of
HUge2 == Heading(<<"U","g","e"," ","2">>)
HWeek3 == Heading(<<"W","e","e","k"," ","3">>)
AMon == Anchor(<<"m","o","n",".","p","d","f">>, <<"M","a","n","d","a","g">>)
AMonB == Anchor(<<"m","o","n","b",".","p","d","f">>, <<"M","a","n","d","a","g">>)
AUrl3 == Anchor(<<"m","e","n","u","-","u","g","e","3","-","m","a","n","d","a","g",".","p","d","f">>, <<"M","e","n","u">>)
AUrl5 == Anchor(<<"/","W","_","5","/","m","a","n",".","p","d","f">>, <<"M","A","N","D","A","G">>)
ATir == Anchor(<<"t","i","r",".","p","d","f">>, <<"T","i","r","s","d","a","g">>)
AHtml == Anchor(<<"m","o","n",".","h","t","m","l">>, <<"M","a","n","d","a","g">>)

Elements == {HUge2, HWeek3, AMon, AMonB, AUrl3, AUrl5, ATir, AHtml}

Listings == UNION { [1..n -> Elements] : n \in 0..MaxElems }

TargetWeeks == {2, 3, 5}

-----------------------------------------------------------------------------
(* findMenuPdfUrl *)

\* weekNum: null
NullWeek == -1

\* null where a string is expected: not a string of characters
Null == <<"null">>

\* the function's null result
NullUrl == Null

TokUge == <<"u","g","e">>
TokWeek == <<"w","e","e","k">>
TokW == <<"w">>

\* [_\-\s]
IsUrlSep(c) == c \in {"_", "-"} \/ IsSpace(c)

\* where the digits of /(uge|week|w)[_\-\s]?(\d+)/i start when the token tok
\* matches at position i of the lower-cased string ls, 0 when it does not
UrlDigitsAfter(ls, i, tok) ==
    LET j == i + Len(tok)
    IN IF ~MatchesAt(ls, tok, i) THEN 0
       ELSE IF j <= Len(ls) /\ IsUrlSep(ls[j]) /\ DigitRun(ls, j + 1) > 0
            THEN j + 1
       ELSE IF DigitRun(ls, j) > 0 THEN j
       ELSE 0

\* the alternatives are tried in the order uge, week, w
UrlDigitsAt(ls, i) ==
    IF UrlDigitsAfter(ls, i, TokUge) # 0 THEN UrlDigitsAfter(ls, i, TokUge)
    ELSE IF UrlDigitsAfter(ls, i, TokWeek) # 0 THEN UrlDigitsAfter(ls, i, TokWeek)
    ELSE UrlDigitsAfter(ls, i, TokW)

\* href.match(/(uge|week|w)[_\-\s]?(\d+)/i), then parseInt(urlWeekMatch[2], 10):
\* the number of the leftmost match, NullWeek when there is no match
RECURSIVE UrlWeekFrom(_, _)
UrlWeekFrom(ls, i) ==
    IF i > Len(ls) THEN NullWeek
    ELSE IF UrlDigitsAt(ls, i) # 0
         THEN DigitsValue(ls, UrlDigitsAt(ls, i), DigitRun(ls, UrlDigitsAt(ls, i)))
    ELSE UrlWeekFrom(ls, i + 1)

UrlWeekMatch(href) == UrlWeekFrom(toLowerCase(href), 1)

\* where the digits of /uge\s+(\d+)|week\s+(\d+)/gi start when the token tok
\* matches at position i of ls, 0 when it does not
HeadDigitsAfter(ls, i, tok) ==
    LET j == i + Len(tok)
        k == j + SpaceRun(ls, j)
    IN IF MatchesAt(ls, tok, i) /\ k > j /\ DigitRun(ls, k) > 0 THEN k ELSE 0

HeadDigitsAt(ls, i) ==
    IF HeadDigitsAfter(ls, i, TokUge) # 0 THEN HeadDigitsAfter(ls, i, TokUge)
    ELSE HeadDigitsAfter(ls, i, TokWeek)

\* [...s.matchAll(/uge\s+(\d+)|week\s+(\d+)/gi)] scanned from position i, then
\* the number of the last match (last when there is none from i on)
RECURSIVE LastWeekFrom(_, _, _)
LastWeekFrom(ls, i, last) ==
    IF i > Len(ls) THEN last
    ELSE IF HeadDigitsAt(ls, i) # 0
         THEN LET k == HeadDigitsAt(ls, i)
                  n == DigitRun(ls, k)
              IN LastWeekFrom(ls, k + n, DigitsValue(ls, k, n))
    ELSE LastWeekFrom(ls, i + 1, last)

\* weekMatches[weekMatches.length - 1] of the markup, NullWeek when empty
LastWeekMention(markup) == LastWeekFrom(toLowerCase(markup), 1, NullWeek)

\* the week inferred from the position of the element's markup in the body
PositionalWeek(doc, e) ==
    LET bodyHtml == BodyHtml(doc)
        elementPos == indexOf(bodyHtml, OuterHtml(e))
    IN IF elementPos = -1 THEN NullWeek
       ELSE LastWeekMention(substring0(bodyHtml, elementPos))

\* the selector a[href$=".pdf"], the empty-href test and the day filter
Kept(e, dayName) ==
    /\ e.tag = "a"
    /\ endsWith(e.href, PdfSuffix)
    /\ e.href # <<>>
    /\ \/ includes(toLowerCase(e.text), toLowerCase(dayName))
       \/ includes(toLowerCase(e.href), toLowerCase(dayName))

\* positional inference first, the URL only when the position says nothing
CandidateWeekPositionFirst(doc, e) ==
    IF PositionalWeek(doc, e) # NullWeek THEN PositionalWeek(doc, e)
    ELSE UrlWeekMatch(e.href)

\* the weekNum pushed for a kept anchor
CandidateWeek(doc, e) ==
    IF UrlWeekMatch(e.href) # NullWeek THEN UrlWeekMatch(e.href)
    ELSE PositionalWeek(doc, e)

\* the candidate pushed for the k-th element of the document
CandidateOf(doc, k) ==
    [href |-> doc[k].href, weekNum |-> CandidateWeek(doc, doc[k])]

\* the candidates array after the each() loop over the elements from k on
RECURSIVE CandidatesFrom(_, _, _)
CandidatesFrom(doc, dayName, k) ==
    IF k > Len(doc) THEN <<>>
    ELSE IF Kept(doc[k], dayName)
         THEN <<CandidateOf(doc, k)>> \o CandidatesFrom(doc, dayName, k + 1)
    ELSE CandidatesFrom(doc, dayName, k + 1)

Candidates(doc, dayName) == CandidatesFrom(doc, dayName, 1)

\* the last matching candidate instead of the first
FindLastMatch(candidates, week) ==
    IF \E i \in 1..Len(candidates) : candidates[i].weekNum = week
    THEN CHOOSE i \in 1..Len(candidates) :
             /\ candidates[i].weekNum = week
             /\ \A j \in (i + 1)..Len(candidates) : candidates[j].weekNum # week
    ELSE 0

\* candidates.find((c) => c.weekNum === weekNumber), as an index (0: none)
FindMatch(candidates, week) ==
    IF \E i \in 1..Len(candidates) : candidates[i].weekNum = week
    THEN CHOOSE i \in 1..Len(candidates) :
             /\ candidates[i].weekNum = week
             /\ \A j \in 1..(i - 1) : candidates[j].weekNum # week
    ELSE 0

\* the fallback taken for any single candidate, whatever its week
FallbackAnySingle(candidates) == Len(candidates) = 1

\* candidates.length === 1 && candidates[0].weekNum === null
Fallback(candidates) ==
    Len(candidates) = 1 /\ candidates[1].weekNum = NullWeek

findMenuPdfUrl(doc, week, dayName) ==
    LET candidates == Candidates(doc, dayName)
        match == FindMatch(candidates, week)
    IN IF match # 0 THEN candidates[match].href
       ELSE IF Fallback(candidates) THEN candidates[1].href
       ELSE NullUrl

-----------------------------------------------------------------------------
(* The command line *)

FlagWeek == <<"-","-","w","e","e","k">>
FlagW == <<"-","w">>
FlagDay == <<"-","-","d","a","y">>
FlagD == <<"-","d">>
FlagHelp == <<"-","-","h","e","l","p">>
FlagH == <<"-","h">>
FlagNoAllergies == <<"-","-","n","o","-","a","l","l","e","r","g","i","e","s">>
FlagNa == <<"-","n","a">>

\* args.indexOf(flag), 0-based, -1 when absent
RECURSIVE ArgIndexFrom(_, _, _)
ArgIndexFrom(a, flag, i) ==
    IF i > Len(a) THEN -1
    ELSE IF a[i] = flag THEN i - 1
    ELSE ArgIndexFrom(a, flag, i + 1)

\* args.includes(flag)
ArgsInclude(a, flag) == ArgIndexFrom(a, flag, 1) # -1

\* getArgValue: the flags are tried in order; the value is the argument that
\* follows the first occurrence of the flag, when there is one
RECURSIVE GetArgValueFrom(_, _, _)
GetArgValueFrom(a, flags, f) ==
    IF f > Len(flags) THEN Null
    ELSE LET index == ArgIndexFrom(a, flags[f], 1)
         IN IF index # -1 /\ index + 1 < Len(a) THEN a[index + 2]
            ELSE GetArgValueFrom(a, flags, f + 1)

getArgValue(a, flags) == GetArgValueFrom(a, flags, 1)

\* truthiness of a string | null: null and the empty string are falsy
Truthy(v) == v # Null /\ v # <<>>

\* getDayByName: the index in WEEKDAYS of the first entry whose danish or
\* english name is the lower-cased name, 0 (null) when there is none
getDayByName(name) ==
    LET lowerName == toLowerCase(name)
        hit(i) == WEEKDAYS[i].danish = lowerName \/ WEEKDAYS[i].english = lowerName
    IN IF \E i \in 1..Len(WEEKDAYS) : hit(i)
       THEN CHOOSE i \in 1..Len(WEEKDAYS) : hit(i) /\ \A j \in 1..(i - 1) : ~hit(j)
       ELSE 0

\* WEEKDAYS.map((d) => `${d.danish}/${d.english}`).join(', ')
ValidDays == [i \in 1..Len(WEEKDAYS) |-> <<WEEKDAYS[i].danish, WEEKDAYS[i].english>>]

\* the values given to --week in the runs under study
WeekInputs == {<<>>, <<"0">>, <<"1">>, <<"3">>, <<"5","3">>, <<"5","4">>, <<"5","x">>, <<"a","b","c">>}

\* the values given to --day in the runs under study
DayInputs == {<<>>, <<"m","a","n","d","a","g">>, <<"M","a","n","d","a","g">>, <<"M","O","N","D","A","Y">>, <<"f","r","e","d","a","g">>, <<"l","ø","r","d","a","g">>, <<"s","a","t","u","r","d","a","y">>, <<"o","n","s","d","a","g","x">>}

WeekParts == {<<>>, <<FlagW, <<"5","3">>>>} \cup { <<FlagWeek, v>> : v \in WeekInputs }

DayParts == {<<>>, <<FlagD, <<"f","r","e","d","a","g">>>>} \cup { <<FlagDay, v>> : v \in DayInputs }

OtherParts == {<<>>, <<FlagNoAllergies>>, <<FlagHelp>>}

\* a flag without a value, a flag taken as a value, both spellings of a flag
SpecialLines == {
    <<FlagWeek>>, <<FlagDay>>, <<FlagH>>, <<FlagNa>>,
    <<FlagWeek, FlagDay, <<"m","a","n","d","a","g">>>>,
    <<FlagW, <<"2">>, FlagWeek, <<"3">>>>,
    <<FlagDay, <<"t","i","r","s","d","a","g">>, FlagWeek>> }

CommandLines ==
    { w \o d \o o : w \in WeekParts, d \in DayParts, o \in OtherParts }
    \cup SpecialLines

\* the dates of the runs under study: a Saturday, a Sunday, the Monday of week
\* 1 of the next year, the Thursday of a week 53, a Wednesday in June
MainDates == {
    [y |-> 2024, m |-> 11, d |-> 28],
    [y |-> 2024, m |-> 11, d |-> 29],
    [y |-> 2024, m |-> 11, d |-> 30],
    [y |-> 2026, m |-> 11, d |-> 31],
    [y |-> 2024, m |-> 5, d |-> 12] }

\* the listing pages served in the runs under study
MainListings == {
    <<>>,
    <<AMon>>,
    <<HUge2, AMon>>,
    <<AUrl3, AUrl5>>,
    <<AMon, AMonB>>,
    <<HUge2, AMon, HWeek3, AMonB>> }

-----------------------------------------------------------------------------
(* The text transforms *)

TokDashes == <<"-","-">>
TokOf == <<"o","f">>

\* length of the match of /--\s*\d+\s+of\s+\d+\s*--/ at position i, 0: none
PageNumberLen(s, i) ==
    LET a == i + 2 + SpaceRun(s, i + 2)
        b == a + DigitRun(s, a)
        c == b + SpaceRun(s, b)
        d == c + 2 + SpaceRun(s, c + 2)
        e == d + DigitRun(s, d)
        f == e + SpaceRun(s, e)
    IN IF /\ MatchesAt(s, TokDashes, i)
          /\ b > a
          /\ c > b
          /\ MatchesAt(s, TokOf, c)
          /\ d > c + 2
          /\ e > d
          /\ MatchesAt(s, TokDashes, f)
       THEN f + 2 - i ELSE 0

IsAllergyChar(c) == IsDigit(c) \/ c \in {",", "T", "K", "M", "N"} \/ IsSpace(c)

RECURSIVE AllergyRun(_, _)
AllergyRun(s, i) ==
    IF i <= Len(s) /\ IsAllergyChar(s[i]) THEN 1 + AllergyRun(s, i + 1) ELSE 0

\* length of the match of /\s*\([0-9,TKMN\s]+\)/ at position i, 0: none
AllergyLen(s, i) ==
    LET a == i + SpaceRun(s, i)
        b == a + 1 + AllergyRun(s, a + 1)
    IN IF /\ a <= Len(s)
          /\ s[a] = "("
          /\ b > a + 1
          /\ b <= Len(s)
          /\ s[b] = ")"
       THEN b + 1 - i ELSE 0

\* text.replace(/.../g, '') for the two patterns
RECURSIVE StripPageNumbers(_, _)
StripPageNumbers(s, i) ==
    IF i > Len(s) THEN <<>>
    ELSE IF PageNumberLen(s, i) > 0 THEN StripPageNumbers(s, i + PageNumberLen(s, i))
    ELSE <<s[i]>> \o StripPageNumbers(s, i + 1)

RECURSIVE StripAllergy(_, _)
StripAllergy(s, i) ==
    IF i > Len(s) THEN <<>>
    ELSE IF AllergyLen(s, i) > 0 THEN StripAllergy(s, i + AllergyLen(s, i))
    ELSE <<s[i]>> \o StripAllergy(s, i + 1)

\* String.prototype.trim
RECURSIVE trim(_)
trim(s) ==
    IF s = <<>> THEN s
    ELSE IF IsSpace(s[1]) THEN trim(Tail(s))
    ELSE IF IsSpace(s[Len(s)]) THEN trim(SubSeq(s, 1, Len(s) - 1))
    ELSE s

removePageNumbers(text) == trim(StripPageNumbers(text, 1))

removeAllergyInfo(text) == StripAllergy(text, 1)

\* the texts of page 2 of the PDFs served in the runs under study
PdfTexts == {<<"S","o","u","p"," ","(","1",",","7",")","\n","-","-"," ","2"," ","o","f"," ","2"," ","-","-","\n">>, <<"R","i","c","e">>}

-----------------------------------------------------------------------------
(* main: one run of the script *)

\* no date read
NoDate == [y |-> 0, m |-> 0, d |-> 0]

\* no line written with console.error
NoError == [kind |-> "", input |-> <<>>, days |-> <<>>, week |-> 0]

\* the bounds of a week number
MinWeek == 1
MaxWeek == 53

Init ==
    /\ pc = "start"
    /\ args \in CommandLines
    /\ today \in MainDates
    /\ tz \in Zones
    /\ weekNumber = 0
    /\ selectedDay = 0
    /\ html = <<>>
    /\ pdfUrl = Null
    /\ tmpFile = "none"
    /\ unlinkReq = FALSE
    /\ dlError = ""
    /\ dlCause = ""
    /\ menuText = <<>>
    /\ out = <<>>
    /\ errMsg = NoError
    /\ exitCode = -1
    /\ fetches = 0

\* const noAllergies
noAllergies == ArgsInclude(args, FlagNoAllergies) \/ ArgsInclude(args, FlagNa)

\* the help test
HelpAsked == ArgsInclude(args, FlagHelp) \/ ArgsInclude(args, FlagH)

\* new Error(kind ...) thrown inside the try block of main: the catch block
\* writes the message with console.error and calls process.exit(1)
Fail(kind, input, days, week) ==
    /\ errMsg' = [kind |-> kind, input |-> input, days |-> days, week |-> week]
    /\ exitCode' = 1
    /\ pc' = "exited"

\* --help, -h: the usage text, then process.exit(0)
MainHelp ==
    /\ pc = "start"
    /\ HelpAsked
    /\ out' = Append(out, "Usage")
    /\ exitCode' = 0
    /\ pc' = "exited"
    /\ UNCHANGED <<args, today, tz, weekNumber, selectedDay, html, pdfUrl,
                   tmpFile, unlinkReq, dlError, dlCause, menuText, errMsg,
                   fetches>>

\* the defaults from the current date
MainDefaults ==
    /\ pc = "start"
    /\ ~HelpAsked
    /\ weekNumber' = getWeekNumber(tz, today)
    /\ pc' = "parse_week"
    /\ UNCHANGED <<args, today, tz, selectedDay, html, pdfUrl, tmpFile,
                   unlinkReq, dlError, dlCause, menuText, out, errMsg,
                   exitCode, fetches>>

\* const weekArg
weekArg == getArgValue(args, <<FlagWeek, FlagW>>)

\* const dayArg
dayArg == getArgValue(args, <<FlagDay, FlagD>>)

\* a variant of WeekRejected without the range test
WeekRejectedNaNOnly(parsedWeek) == isNaN(parsedWeek)

\* isNaN(parsedWeek) || parsedWeek < 1 || parsedWeek > 53
WeekRejected(parsedWeek) ==
    isNaN(parsedWeek) \/ parsedWeek < MinWeek \/ parsedWeek > MaxWeek

\* the --week argument
MainParseWeek ==
    /\ pc = "parse_week"
    /\ IF Truthy(weekArg)
       THEN IF WeekRejected(parseInt(weekArg))
            THEN /\ Fail("Invalid week number", weekArg, <<>>, 0)
                 /\ UNCHANGED weekNumber
            ELSE /\ weekNumber' = parseInt(weekArg)
                 /\ pc' = "parse_day"
                 /\ UNCHANGED <<errMsg, exitCode>>
       ELSE /\ pc' = "parse_day"
            /\ UNCHANGED <<weekNumber, errMsg, exitCode>>
    /\ UNCHANGED <<args, today, tz, selectedDay, html, pdfUrl, tmpFile,
                   unlinkReq, dlError, dlCause, menuText, out, fetches>>

\* the progress lines, then fetchUrl(menuPageUrl) sends its request
StartFetch ==
    /\ out' = out \o <<"Fetching menu for", "", "Fetching menu page...">>
    /\ fetches' = fetches + 1
    /\ pc' = "fetching"
    /\ UNCHANGED <<errMsg, exitCode>>

\* the --day argument, or getCurrentDay
MainParseDay ==
    /\ pc = "parse_day"
    /\ IF Truthy(dayArg)
       THEN IF getDayByName(dayArg) = 0
            THEN /\ Fail("Invalid day", dayArg, ValidDays, 0)
                 /\ UNCHANGED <<selectedDay, out, fetches>>
            ELSE /\ selectedDay' = getDayByName(dayArg)
                 /\ StartFetch
       ELSE IF getDay(today) = 0 \/ getDay(today) = 6
            THEN /\ Fail("No menu available on weekends", <<>>, <<>>, 0)
                 /\ UNCHANGED <<selectedDay, out, fetches>>
            ELSE /\ selectedDay' = getDay(today)
                 /\ StartFetch
    /\ UNCHANGED <<args, today, tz, weekNumber, html, pdfUrl, tmpFile,
                   unlinkReq, dlError, dlCause, menuText>>

\* fetchUrl: status 200 and the end of the body
FetchUrlResolve ==
    /\ pc = "fetching"
    /\ \E page \in MainListings : html' = page
    /\ pc' = "find_pdf"
    /\ UNCHANGED <<args, today, tz, weekNumber, selectedDay, pdfUrl, tmpFile,
                   unlinkReq, dlError, dlCause, menuText, out, errMsg,
                   exitCode, fetches>>

\* fetchUrl: another status, or an error of the request
FetchUrlReject ==
    /\ pc = "fetching"
    /\ \E kind \in {"Failed to fetch", "request error"} : Fail(kind, <<>>, <<>>, 0)
    /\ UNCHANGED <<args, today, tz, weekNumber, selectedDay, html, pdfUrl,
                   tmpFile, unlinkReq, dlError, dlCause, menuText, out, fetches>>

\* the test that skips the throw although no URL was found
PdfUrlMissingNever(url) == FALSE

\* !pdfUrl
PdfUrlMissing(url) == ~Truthy(url)

\* the link resolution and its failure
FindPdf ==
    /\ pc = "find_pdf"
    /\ pdfUrl' = findMenuPdfUrl(html, weekNumber, WEEKDAYS[selectedDay].danish)
    /\ IF PdfUrlMissing(pdfUrl')
       THEN /\ Fail("Could not find PDF", WEEKDAYS[selectedDay].danish, <<>>, weekNumber)
            /\ out' = Append(out, "Finding PDF link...")
       ELSE /\ out' = out \o <<"Finding PDF link...", "Found PDF">>
            /\ pc' = "download"
            /\ UNCHANGED <<errMsg, exitCode>>
    /\ UNCHANGED <<args, today, tz, weekNumber, selectedDay, html, tmpFile,
                   unlinkReq, dlError, dlCause, menuText, fetches>>

\* downloadFile: fs.createWriteStream creates the file, client.get sends the
\* request
DownloadStart ==
    /\ pc = "download"
    /\ out' = Append(out, "Downloading PDF...")
    /\ tmpFile' = "exists"
    /\ fetches' = fetches + 1
    /\ pc' = "downloading"
    /\ UNCHANGED <<args, today, tz, weekNumber, selectedDay, html, pdfUrl,
                   unlinkReq, dlError, dlCause, menuText, errMsg, exitCode>>

\* downloadFile: the 'error' handler of the request, before the response or
\* (an error of the socket) while the body is received
DownloadRequestError ==
    /\ pc \in {"downloading", "piping"}
    /\ unlinkReq' = TRUE
    /\ dlCause' = "request error"
    /\ dlError' = "request error"
    /\ pc' = "download_rejected"
    /\ UNCHANGED <<args, today, tz, weekNumber, selectedDay, html, pdfUrl,
                   tmpFile, menuText, out, errMsg, exitCode, fetches>>

\* downloadFile: the response callback, statusCode !== 200
DownloadBadStatus ==
    /\ pc = "downloading"
    /\ dlCause' = "status"
    /\ dlError' = "Failed to download"
    /\ pc' = "download_rejected"
    /\ UNCHANGED <<args, today, tz, weekNumber, selectedDay, html, pdfUrl,
                   tmpFile, unlinkReq, menuText, out, errMsg, exitCode, fetches>>

\* downloadFile: the response callback, statusCode 200: res.pipe(file)
DownloadResponseOk ==
    /\ pc = "downloading"
    /\ pc' = "piping"
    /\ UNCHANGED <<args, today, tz, weekNumber, selectedDay, html, pdfUrl,
                   tmpFile, unlinkReq, dlError, dlCause, menuText, out, errMsg,
                   exitCode, fetches>>

\* downloadFile: the 'error' handler of the write stream
DownloadFileError ==
    /\ pc \in {"downloading", "piping"}
    /\ unlinkReq' = TRUE
    /\ dlCause' = "write error"
    /\ dlError' = "write error"
    /\ pc' = "download_rejected"
    /\ UNCHANGED <<args, today, tz, weekNumber, selectedDay, html, pdfUrl,
                   tmpFile, menuText, out, errMsg, exitCode, fetches>>

\* the response ends early after the status line without an error of the
\* socket: res is aborted, but downloadFile listens neither to 'aborted' nor to
\* 'error' of res, and res.pipe does not end the file. The promise is never
\* settled, main never resumes, and the process ends with nothing left to do.
DownloadResponseAborted ==
    /\ pc = "piping"
    /\ dlCause' = "response aborted"
    /\ exitCode' = 0
    /\ pc' = "exited"
    /\ UNCHANGED <<args, today, tz, weekNumber, selectedDay, html, pdfUrl,
                   tmpFile, unlinkReq, dlError, menuText, out, errMsg, fetches>>

\* downloadFile: the 'finish' handler of the write stream
DownloadFinish ==
    /\ pc = "piping"
    /\ pc' = "parse_pdf"
    /\ UNCHANGED <<args, today, tz, weekNumber, selectedDay, html, pdfUrl,
                   tmpFile, unlinkReq, dlError, dlCause, menuText, out, errMsg,
                   exitCode, fetches>>

\* the asynchronous fs.unlink asked for by downloadFile is carried out, which
\* can only happen while the process lives
UnlinkComplete ==
    /\ unlinkReq
    /\ tmpFile = "exists"
    /\ exitCode = -1
    /\ tmpFile' = "deleted"
    /\ UNCHANGED <<pc, args, today, tz, weekNumber, selectedDay, html, pdfUrl,
                   unlinkReq, dlError, dlCause, menuText, out, errMsg,
                   exitCode, fetches>>

\* await downloadFile(...) throws the rejection into the catch block of main
MainCatchDownload ==
    /\ pc = "download_rejected"
    /\ Fail(dlError, <<>>, <<>>, 0)
    /\ UNCHANGED <<args, today, tz, weekNumber, selectedDay, html, pdfUrl,
                   tmpFile, unlinkReq, dlError, dlCause, menuText, out, fetches>>

\* parsePdf: readFileSync, getText of page 2, destroy
ParsePdfResolve ==
    /\ pc = "parse_pdf"
    /\ \E text \in PdfTexts : menuText' = text
    /\ out' = Append(out, "Parsing PDF...")
    /\ pc' = "finish"
    /\ UNCHANGED <<args, today, tz, weekNumber, selectedDay, html, pdfUrl,
                   tmpFile, unlinkReq, dlError, dlCause, errMsg, exitCode,
                   fetches>>

\* parsePdf throws: the file cannot be read, is no PDF, or has no page 2
ParsePdfReject ==
    /\ pc = "parse_pdf"
    /\ Fail("PDF parse error", <<>>, <<>>, 0)
    /\ out' = Append(out, "Parsing PDF...")
    /\ UNCHANGED <<args, today, tz, weekNumber, selectedDay, html, pdfUrl,
                   tmpFile, unlinkReq, dlError, dlCause, menuText, fetches>>

\* the text after removePageNumbers and the optional removeAllergyInfo
Normalized(text) ==
    IF noAllergies THEN removeAllergyInfo(removePageNumbers(text))
    ELSE removePageNumbers(text)

\* the lines of the banner and of the menu, as main prints them; "menu"
\* stands for the line that prints menuText
MenuLines == <<"", "====", "MENU FOR", "====", "", "menu", "", "====">>

\* a variant of MainFinish that prints before fs.unlinkSync
MainFinishPrintFirst ==
    /\ pc = "finish"
    /\ menuText' = Normalized(menuText)
    /\ out' = out \o MenuLines
    /\ \/ /\ tmpFile' = "deleted"
          /\ pc' = "printed"
          /\ UNCHANGED <<errMsg, exitCode>>
       \/ /\ Fail("unlink error", <<>>, <<>>, 0)
          /\ UNCHANGED tmpFile
    /\ UNCHANGED <<args, today, tz, weekNumber, selectedDay, html, pdfUrl,
                   unlinkReq, dlError, dlCause, fetches>>

\* the transforms, fs.unlinkSync, then the banner and the menu
MainFinish ==
    /\ pc = "finish"
    /\ menuText' = Normalized(menuText)
    /\ \/ /\ tmpFile' = "deleted"
          /\ out' = out \o MenuLines
          /\ pc' = "printed"
          /\ UNCHANGED <<errMsg, exitCode>>
       \/ /\ Fail("unlink error", <<>>, <<>>, 0)
          /\ UNCHANGED <<tmpFile, out>>
    /\ UNCHANGED <<args, today, tz, weekNumber, selectedDay, html, pdfUrl,
                   unlinkReq, dlError, dlCause, fetches>>

\* main returns and the process ends with nothing left to do
MainReturn ==
    /\ pc = "printed"
    /\ exitCode' = 0
    /\ pc' = "exited"
    /\ UNCHANGED <<args, today, tz, weekNumber, selectedDay, html, pdfUrl,
                   tmpFile, unlinkReq, dlError, dlCause, menuText, out, errMsg,
                   fetches>>

Next ==
    \/ MainHelp
    \/ MainDefaults
    \/ MainParseWeek
    \/ MainParseDay
    \/ FetchUrlResolve
    \/ FetchUrlReject
    \/ FindPdf
    \/ DownloadStart
    \/ DownloadRequestError
    \/ DownloadBadStatus
    \/ DownloadResponseOk
    \/ DownloadFileError
    \/ DownloadResponseAborted
    \/ DownloadFinish
    \/ UnlinkComplete
    \/ MainCatchDownload
    \/ ParsePdfResolve
    \/ ParsePdfReject
    \/ MainFinish
    \/ MainReturn

Spec == Init /\ [][Next]_vars

-----------------------------------------------------------------------------
(* Properties of a run of main *)

\* a line was written with console.log
Logged(line) == \E i \in 1..Len(out) : out[i] = line

\* the link resolution step of the run has been executed
FindPdfDone == Logged("Finding PDF link...")

\* no candidate has the target week and the single-unknown-candidate fallback
\* does not apply
NoCandidateApplies ==
    LET c == Candidates(html, WEEKDAYS[selectedDay].danish)
    IN /\ \A i \in 1..Len(c) : c[i].weekNum # weekNumber
       /\ ~(Len(c) = 1 /\ c[1].weekNum = NullWeek)

\* C5: when no kept candidate has the target week and the fallback does not
\* apply, there is no URL and the run fails with the "Could not find PDF for
\* <day> in week <N>" error, without a temporary file and without a download.
C5_ResolutionFailure ==
    (FindPdfDone /\ NoCandidateApplies) =>
        /\ pdfUrl = Null
        /\ pc = "exited"
        /\ exitCode = 1
        /\ errMsg = [kind |-> "Could not find PDF",
                     input |-> WEEKDAYS[selectedDay].danish,
                     days |-> <<>>, week |-> weekNumber]
        /\ tmpFile = "none"
        /\ fetches = 1
        /\ ~Logged("Downloading PDF...")

\* the run failed on a listing with two candidates, none of the target week
C5_Witness ==
    /\ FindPdfDone
    /\ NoCandidateApplies
    /\ Len(Candidates(html, WEEKDAYS[selectedDay].danish)) >= 2
    /\ pc = "exited"
    /\ errMsg.kind = "Could not find PDF"

\* the error that the failing event hands to reject
OriginalError(cause) == IF cause = "status" THEN "Failed to download" ELSE cause

\* C6: whenever downloadFile fails (error of the request, status other than
\* 200, error of the write stream), the deletion of the temporary file has
\* been asked for before the error reaches the caller, and the error that
\* reaches the caller is the original one.
C6_CleanupBeforeRejection ==
    /\ pc = "download_rejected" => (unlinkReq /\ dlError = OriginalError(dlCause))
    /\ (pc = "exited" /\ dlError # "") => errMsg.kind = dlError

\* the value after --week / -w is an integer in [1,53]
IsWeekInteger(v) ==
    /\ v # <<>>
    /\ DigitRun(v, 1) = Len(v)
    /\ DigitsValue(v, 1, Len(v)) \in MinWeek..MaxWeek

\* a value follows --week / -w on the command line
WeekSupplied == weekArg # Null

\* the run has gone through the --week step
WeekStepDone == ~HelpAsked /\ pc \notin {"start", "parse_week"}

\* C8: a supplied week value that is not an integer in [1,53] makes the run
\* fail with the invalid-week error naming the input, before any fetch; an
\* integer in [1,53] (1 and 53 included) becomes the target week.
C8_WeekOverrideValidated ==
    (WeekStepDone /\ WeekSupplied) =>
        IF IsWeekInteger(weekArg)
        THEN /\ weekNumber = DigitsValue(weekArg, 1, Len(weekArg))
             /\ errMsg.kind # "Invalid week number"
        ELSE /\ pc = "exited"
             /\ exitCode = 1
             /\ errMsg.kind = "Invalid week number"
             /\ errMsg.input = weekArg
             /\ fetches = 0

\* a value follows --day / -d on the command line
DaySupplied == dayArg # Null

\* the run has gone through the --day / getCurrentDay step
DayStepDone ==
    /\ ~HelpAsked
    /\ pc \notin {"start", "parse_week", "parse_day"}
    /\ errMsg.kind # "Invalid week number"

Weekend == getDay(today) \in {0, 6}

\* C9: on a Saturday or Sunday without a day override the run fails with "No
\* menu available on weekends" before any fetch; with a day override the
\* override decides the weekday and the weekend failure never happens.
C9_WeekendDefaulting ==
    DayStepDone =>
        /\ (Weekend /\ ~DaySupplied) =>
               /\ pc = "exited"
               /\ exitCode = 1
               /\ errMsg.kind = "No menu available on weekends"
               /\ fetches = 0
        /\ DaySupplied =>
               /\ errMsg.kind # "No menu available on weekends"
               /\ selectedDay # 0 => selectedDay = getDayByName(dayArg)

\* the strings are equal when letter case is ignored
EqualsIgnoreCase(a, b) ==
    /\ Len(a) = Len(b)
    /\ \A i \in 1..Len(a) : LowerChar(a[i]) = LowerChar(b[i])

\* the table entries named by a value
NamedEntries(v) ==
    { i \in 1..Len(WEEKDAYS) :
        EqualsIgnoreCase(v, WEEKDAYS[i].danish) \/ EqualsIgnoreCase(v, WEEKDAYS[i].english) }

\* C10: a supplied day value that equals, ignoring case, the danish or the
\* english name of a table entry selects that entry; every other value makes
\* the run fail with the invalid-day error that lists all valid names.
C10_DayOverrideValidated ==
    (DayStepDone /\ DaySupplied) =>
        IF NamedEntries(dayArg) # {}
        THEN /\ selectedDay \in NamedEntries(dayArg)
             /\ errMsg.kind # "Invalid day"
        ELSE /\ pc = "exited"
             /\ exitCode = 1
             /\ errMsg.kind = "Invalid day"
             /\ errMsg.input = dayArg
             /\ Len(errMsg.days) = 5
             /\ \A i \in 1..5 :
                    errMsg.days[i] = <<WEEKDAYS[i].danish, WEEKDAYS[i].english>>
             /\ fetches = 0

\* the output ends with the whole banner and menu
MenuPrinted ==
    /\ Len(out) >= Len(MenuLines)
    /\ SubSeq(out, Len(out) - Len(MenuLines) + 1, Len(out)) = MenuLines

HelpShown == Logged("Usage")

\* C11: a run ends with status 0 only when the menu was printed in full or
\* the help was shown; every other run, whatever the stage that failed (the
\* response of the PDF download failing after its status line included), ends
\* with status 1 after one error line was reported, and no request is made a
\* second time.
C11_ExitStatus ==
    pc = "exited" =>
        /\ exitCode \in {0, 1}
        /\ exitCode = 0 => (MenuPrinted \/ HelpShown) /\ errMsg = NoError
        /\ ~(MenuPrinted \/ HelpShown) => exitCode = 1 /\ errMsg # NoError
        /\ fetches <= 2

\* the progress lines of the stages, in the order of main
StageLines ==
    <<"Fetching menu for", "", "Fetching menu page...", "Finding PDF link...",
      "Found PDF", "Downloading PDF...", "Parsing PDF...">>

\* some line of the banner or of the menu was printed
BannerLogged == Logged("MENU FOR") \/ Logged("menu") \/ Logged("====")

\* the run failed: an error line was written, or the run ended without
\* reaching the end of main
RunFailed ==
    \/ errMsg # NoError
    \/ exitCode = 1
    \/ pc = "exited" /\ ~HelpShown /\ ~MenuPrinted

\* C12: the banner and the menu are printed only after the listing fetch, the
\* link resolution, the PDF download, the text extraction, the normalization
\* and the removal of the temporary file have all succeeded, in that order;
\* in a failing run no line of the banner or of the menu is printed.
C12_OutputAfterPipeline ==
    /\ BannerLogged =>
          /\ out = StageLines \o MenuLines
          /\ pdfUrl # Null
          /\ dlError = ""
          /\ dlCause = ""
          /\ \E text \in PdfTexts : menuText = Normalized(text)
          /\ tmpFile = "deleted"
          /\ errMsg = NoError
          /\ exitCode \in {-1, 0}
    /\ RunFailed => ~BannerLogged

C12_Witness ==
    /\ pc = "printed"
    /\ MenuPrinted
    /\ noAllergies
    /\ tmpFile = "deleted"
    /\ exitCode = -1

\* the run has reached the listing fetch
FetchReached == fetches >= 1

\* C13: in every run that reaches the listing fetch, the target week handed
\* to the link resolution is an integer in [1,53], whether it comes from
\* getWeekNumber or from --week / -w. At the start of a run without arguments
\* the same is required of getWeekNumber for every date of the years under
\* study in the time zone of the host.
C13_TargetWeekInRange ==
    /\ FetchReached => weekNumber \in MinWeek..MaxWeek
    /\ (pc = "start" /\ args = <<>>) =>
          \A date \in Dates : getWeekNumber(tz, date) \in MinWeek..MaxWeek

C13_Witness ==
    /\ pc = "find_pdf"
    /\ FetchReached
    /\ WeekSupplied
    /\ Truthy(weekArg)
    /\ weekNumber = MaxWeek

\* fs.createWriteStream has created the temporary file in this run
TempFileCreated == tmpFile # "none"

\* C14: in every run in which the temporary PDF file was created, the file no
\* longer exists when the process ends, with status 0 or 1, also when the
\* text extraction fails after a successful download.
C14_TempFileRemoved ==
    (pc = "exited" /\ TempFileCreated) => tmpFile = "deleted"

-----------------------------------------------------------------------------
(* getWeekNumber applied to every date of the years under study *)


InitWeek ==
    /\ pc = "week_call"
    /\ today \in Dates
    /\ tz \in Zones
    /\ weekNumber = 0
    /\ args = <<>>
    /\ selectedDay = 0
    /\ html = <<>>
    /\ pdfUrl = Null
    /\ tmpFile = "none"
    /\ unlinkReq = FALSE
    /\ dlError = ""
    /\ dlCause = ""
    /\ menuText = <<>>
    /\ out = <<>>
    /\ errMsg = NoError
    /\ exitCode = -1
    /\ fetches = 0

WeekCall ==
    /\ pc = "week_call"
    /\ weekNumber' = getWeekNumber(tz, today)
    /\ pc' = "week_done"
    /\ UNCHANGED <<args, today, tz, selectedDay, html, pdfUrl, tmpFile,
                   unlinkReq, dlError, dlCause, menuText, out, errMsg,
                   exitCode, fetches>>

NextWeek == WeekCall

SpecWeek == InitWeek /\ [][NextWeek]_vars

\* ISO-8601: a week belongs to the year that holds its Thursday, and week 1
\* is the week holding the year's first Thursday, so the week number is the
\* rank of the week's Thursday among the Thursdays of its year.
IsoWeek(date) ==
    LET n == Count(date)
        thursday == n - ((n + 3) % 7) + 3
        y == DateOfCount(thursday).y
        ordinal == thursday - DaysBeforeYear(y) + 1
    IN ((ordinal - 1) \div 7) + 1

\* C7: getWeekNumber returns the ISO-8601 week number of every date, also at
\* the year boundaries (2024-01-01 gives 1, 2024-12-30 gives 1).
C7_IsoWeekNumber ==
    pc = "week_done" => weekNumber = IsoWeek(today)

-----------------------------------------------------------------------------
(* findMenuPdfUrl applied to every listing under study *)

InitResolve ==
    /\ pc = "resolve_call"
    /\ html \in Listings
    /\ weekNumber \in TargetWeeks
    /\ selectedDay \in 1..2
    /\ today = NoDate
    /\ tz = "UTC"
    /\ args = <<>>
    /\ pdfUrl = NullUrl
    /\ tmpFile = "none"
    /\ unlinkReq = FALSE
    /\ dlError = ""
    /\ dlCause = ""
    /\ menuText = <<>>
    /\ out = <<>>
    /\ errMsg = NoError
    /\ exitCode = -1
    /\ fetches = 0

ResolveCall ==
    /\ pc = "resolve_call"
    /\ pdfUrl' = findMenuPdfUrl(html, weekNumber, WEEKDAYS[selectedDay].danish)
    /\ pc' = "resolve_done"
    /\ UNCHANGED <<args, today, tz, weekNumber, selectedDay, html, tmpFile,
                   unlinkReq, dlError, dlCause, menuText, out, errMsg,
                   exitCode, fetches>>

NextResolve == ResolveCall

SpecResolve == InitResolve /\ [][NextResolve]_vars

\* the candidates of the listing in the state
StateCandidates == Candidates(html, WEEKDAYS[selectedDay].danish)

\* C1: when some kept candidate has the target week, the result is the href
\* of the first such candidate in document order.
C1_FirstMatchSelected ==
    pc = "resolve_done" =>
        LET c == StateCandidates
        IN \A i \in 1..Len(c) :
               (/\ c[i].weekNum = weekNumber
                /\ \A j \in 1..(i - 1) : c[j].weekNum # weekNumber)
               => pdfUrl = c[i].href

\* two candidates of the target week with different hrefs, the first returned
C1_Witness ==
    /\ pc = "resolve_done"
    /\ \E i, j \in 1..Len(StateCandidates) :
           /\ i < j
           /\ StateCandidates[i].weekNum = weekNumber
           /\ StateCandidates[j].weekNum = weekNumber
           /\ StateCandidates[i].href # StateCandidates[j].href
           /\ \A h \in 1..(i - 1) : StateCandidates[h].weekNum # weekNumber
           /\ pdfUrl = StateCandidates[i].href

\* the danish name of the day in the state
StateDayName == WEEKDAYS[selectedDay].danish

\* the week of the last "uge <digits>" / "week <digits>" occurrence in the
\* markup of the elements that precede the k-th element itself
WeekBeforeElement(doc, k) == LastWeekMention(BodyHtml(SubSeq(doc, 1, k - 1)))

\* C2: for every kept anchor without a week marker in its href, the inferred
\* week is the number of the last week occurrence that precedes that anchor
\* itself in the body markup, and unknown when none precedes it.
C2_LastPrecedingOccurrence ==
    pc = "resolve_done" =>
        \A k \in 1..Len(html) :
            (Kept(html[k], StateDayName) /\ UrlWeekMatch(html[k].href) = NullWeek)
            => CandidateOf(html, k).weekNum = WeekBeforeElement(html, k)

\* C3: a kept anchor whose href carries a week marker gets the number in the
\* href as its week, whatever week headings precede it: the same week as when
\* the anchor stands alone in a listing without any heading.
C3_UrlWeekWins ==
    pc = "resolve_done" =>
        \A k \in 1..Len(html) :
            (Kept(html[k], StateDayName) /\ UrlWeekMatch(html[k].href) # NullWeek)
            => /\ CandidateOf(html, k).weekNum = CandidateOf(<<html[k]>>, 1).weekNum
               /\ CandidateOf(html, k).weekNum # NullWeek
               /\ html[k] = AUrl3 => CandidateOf(html, k).weekNum = 3
               /\ html[k] = AUrl5 => CandidateOf(html, k).weekNum = 5

\* an anchor with week 3 in its href stands under a "Uge 2" heading and is the
\* result for target week 3
C3_Witness ==
    /\ pc = "resolve_done"
    /\ weekNumber = 3
    /\ \E k \in 2..Len(html) :
           /\ html[k] = AUrl3
           /\ Kept(html[k], StateDayName)
           /\ WeekBeforeElement(html, k) = 2
           /\ pdfUrl = AUrl3.href


\* C4: when exactly one candidate was kept and its week is unknown, the
\* result is its href for every requested week (the target week of the state,
\* and the ends of [1,53]); when no candidate
\* has the target week and there are two or more candidates, or one with a
\* known week, (or none), there is no result.
C4_Fallback ==
    pc = "resolve_done" =>
        LET c == StateCandidates
            single == Len(c) = 1 /\ c[1].weekNum = NullWeek
        IN /\ single =>
                /\ pdfUrl = c[1].href
                /\ \A w \in {MinWeek, MaxWeek} :
                       findMenuPdfUrl(html, w, StateDayName) = c[1].href
           /\ ((\A i \in 1..Len(c) : c[i].weekNum # weekNumber) /\ ~single)
                => pdfUrl = NullUrl

\* the single candidate of the listing has no week and is the result
C4_Witness ==
    /\ pc = "resolve_done"
    /\ Len(StateCandidates) = 1
    /\ StateCandidates[1].weekNum = NullWeek
    /\ Len(html) > 1
    /\ pdfUrl = StateCandidates[1].href

=============================================================================
